---------------------------- MODULE Spec2Model ----------------------------
(* Model of fantrax_extensions/lineup_optimizer/optimizer.py:              *)
(* Formation, PlayerStatus, LineupOptimizer and the main loop.             *)
(*                                                                         *)
(* An Optional value is a sequence of length at most one: None is << >>    *)
(* and a present value x is <<x>>.  Times are seconds since midnight of    *)
(* the current date (the date every parsed kickoff time is attached to).   *)
EXTENDS Integers, Sequences, FiniteSets, TLC

VARIABLES
    server_roster,     \* the roster the external roster query returns
    server_feed,       \* the records of the external starting-players feed
    pc,                \* position of the single control flow
    roster,            \* optimize_lineup: the fetched roster (Optional)
    player_statuses,   \* self.player_statuses: player id -> PlayerStatus
    last_check_time,   \* self.last_check_time (Optional)
    statuses_before,   \* player_statuses at entry of update_player_statuses
    update_failed,     \* update_player_statuses ended in its except branch
    total_pages,       \* update_player_statuses: total_pages
    current_page,      \* update_player_statuses: current_page
    all_players,       \* update_player_statuses: all_players
    pages_fetched,     \* page numbers passed to fetch_player_page, in order
    current_formation, \* find_optimal_swaps: formation snapshot (Optional)
    current_time,      \* find_optimal_swaps: current_time (Optional)
    starter_players,   \* find_optimal_swaps: [(row, status)] of the starters
    bench_players,     \* find_optimal_swaps: [(row, status)] still unclaimed
    swaps,             \* find_optimal_swaps: proposals so far
    optimal_swaps,     \* optimize_lineup: the returned proposals
    swap_index,        \* optimize_lineup: next proposal to execute
    swap_calls,        \* calls made to api.swap_players in this cycle
    call_args,         \* arguments of a direct call of one method (Optional)
    call_result,       \* value returned by that call (Optional)
    lineup_error,      \* optimize_lineup ran its "except Exception" branch
    slept              \* main: seconds of the last time.sleep (Optional)

vars == <<server_roster, server_feed, pc, roster, player_statuses,
          last_check_time, statuses_before, update_failed, total_pages,
          current_page, all_players, pages_fetched, current_formation,
          current_time, starter_players, bench_players, swaps,
          optimal_swaps, swap_index, swap_calls, call_args,
          call_result, lineup_error, slept>>

None == << >>

Some(x) == <<x>>

-----------------------------------------------------------------------------
(* Bounds and program constants *)

\* model scale of the feed's page size (maxResultsPerPage)
PageSize == 2

\* is_game_soon: 2 hours in seconds
SoonSeconds == 7200

\* update_player_statuses: players are locked 1 minute before game time
LockSeconds == 60

\* values datetime.now(timezone.utc) takes in update_player_statuses
ClockValues == {36000}

\* time that may pass between the refresh and the planner's clock read
ClockDrift == {0, 30}

\* main: check_interval
CheckInterval == 300

\* main: the sleep of the "except Exception" branch
RetrySeconds == 60

-----------------------------------------------------------------------------
(* Formation *)

Formation(gk, def_, mid, fwd) ==
    [gk |-> gk, def_ |-> def_, mid |-> mid, fwd |-> fwd]

\* a legality test that leaves out the total of eleven
is_legal_without_total(f) ==
    /\ f.gk = 1
    /\ 3 <= f.def_ /\ f.def_ <= 5
    /\ 2 <= f.mid /\ f.mid <= 5
    /\ 1 <= f.fwd /\ f.fwd <= 3

is_legal(f) ==
    LET total_players == f.gk + f.def_ + f.mid + f.fwd
    IN  /\ total_players = 11
        /\ f.gk = 1
        /\ 3 <= f.def_ /\ f.def_ <= 5
        /\ 2 <= f.mid /\ f.mid <= 5
        /\ 1 <= f.fwd /\ f.fwd <= 3

-----------------------------------------------------------------------------
(* PlayerStatus *)

PlayerStatus(is_starting, is_benched, game_time, is_locked, opponent) ==
    [is_starting |-> is_starting, is_benched |-> is_benched,
     game_time |-> game_time, is_locked |-> is_locked, opponent |-> opponent]

\* a test on plain booleans, in which unknown has become false
is_confirmed_not_starting_plain(status) ==
    \/ status.is_starting # Some(TRUE)
    \/ status.is_benched = Some(TRUE)

is_confirmed_not_starting(status) ==
    \/ (status.is_starting # None /\ ~status.is_starting[1])
    \/ (status.is_benched # None /\ status.is_benched[1])

\* a test that takes a game exactly two hours away as not soon
is_game_soon_strict(status, now) ==
    IF status.game_time = None
    THEN FALSE
    ELSE status.game_time[1] - now < SoonSeconds

is_game_soon(status, now) ==
    IF status.game_time = None
    THEN FALSE
    ELSE status.game_time[1] - now <= SoonSeconds

-----------------------------------------------------------------------------
(* Feed records.  A composite string is a sequence of tokens; the token    *)
(* Br is the separator "<br/>", Tm(h, m, ap) is the text of a clock time   *)
(* written as %I:%M%p and Txt(s) is any other text.                        *)

Token(k, s, h, m, ap) == [k |-> k, s |-> s, h |-> h, m |-> m, ap |-> ap]

Txt(s) == Token("txt", s, 0, 0, "")

Br == Token("br", "<br/>", 0, 0, "")

Tm(h, m, ap) == Token("time", "", h, m, ap)

\* str.split("<br/>"): the parts between the separators
RECURSIVE split_from(_, _, _)
split_from(str, i, part) ==
    IF i > Len(str)
    THEN <<part>>
    ELSE IF str[i] = Br
         THEN <<part>> \o split_from(str, i + 1, << >>)
         ELSE split_from(str, i + 1, Append(part, str[i]))

split(str) == split_from(str, 1, << >>)

\* datetime.strptime(f"{now.date()} {time_str}", "%Y-%m-%d %I:%M%p") with
\* tzinfo UTC: None stands for the ValueError
strptime(time_str) ==
    IF /\ Len(time_str) = 1
       /\ time_str[1].k = "time"
       /\ time_str[1].h \in 1..12
       /\ time_str[1].m \in 0..59
       /\ time_str[1].ap \in {"AM", "PM"}
    THEN Some(((time_str[1].h % 12)
               + (IF time_str[1].ap = "PM" THEN 12 ELSE 0)) * 3600
              + time_str[1].m * 60)
    ELSE None

\* one record of statsTable: scorerId and opponent may be missing keys
Player(scorerId, opponent, miscDisplayType) ==
    [scorerId |-> scorerId, opponent |-> opponent,
     miscDisplayType |-> miscDisplayType]

\* body of the loop "for player in all_players" for one record that has a
\* scorerId: the PlayerStatus stored for it
parse_player(player, now) ==
    LET opp_info == IF player.opponent = None
                    THEN << >>
                    ELSE split(player.opponent[1])
        opponent == IF Len(opp_info) = 2 THEN Some(opp_info[1]) ELSE None
        game_time == IF Len(opp_info) = 2 THEN strptime(opp_info[2]) ELSE None
        is_locked == IF game_time # None
                     THEN now >= game_time[1] - LockSeconds
                     ELSE FALSE
        misc_type == player.miscDisplayType
        is_starting == IF misc_type = "10" THEN Some(TRUE)
                       ELSE IF misc_type = "11" THEN Some(FALSE)
                       ELSE None
        is_benched == IF misc_type = "10" THEN Some(FALSE)
                      ELSE IF misc_type = "11" THEN Some(TRUE)
                      ELSE None
    IN  PlayerStatus(is_starting, is_benched, game_time, is_locked, opponent)

\* the loop over all_players with a parse that raises on a composite that
\* does not split into two parts
RECURSIVE process_players_unpacking(_, _, _, _)
process_players_unpacking(players, i, statuses, now) ==
    IF i > Len(players)
    THEN [statuses |-> statuses, raised |-> FALSE]
    ELSE IF \/ players[i].scorerId = None
            \/ (players[i].opponent # None
                /\ Len(split(players[i].opponent[1])) # 2)
         THEN [statuses |-> statuses, raised |-> TRUE]
         ELSE LET player_id == players[i].scorerId[1]
                  status == parse_player(players[i], now)
                  updated == [id \in DOMAIN statuses \cup {player_id} |->
                                 IF id = player_id THEN status
                                 ELSE statuses[id]]
              IN  process_players_unpacking(players, i + 1, updated, now)

\* the loop "for player in all_players": the status map after the records
\* from index i on are processed, and whether a record raised (KeyError on
\* a missing scorerId), which leaves the loop at that record
RECURSIVE process_players(_, _, _, _)
process_players(players, i, statuses, now) ==
    IF i > Len(players)
    THEN [statuses |-> statuses, raised |-> FALSE]
    ELSE IF players[i].scorerId = None
         THEN [statuses |-> statuses, raised |-> TRUE]
         ELSE LET player_id == players[i].scorerId[1]
                  status == parse_player(players[i], now)
                  updated == [id \in DOMAIN statuses \cup {player_id} |->
                                 IF id = player_id THEN status
                                 ELSE statuses[id]]
              IN  process_players(players, i + 1, updated, now)

-----------------------------------------------------------------------------
(* Roster rows.  A row is one slot of the roster: slot identifies the row  *)
(* object, pos is row.pos.short_name, player is the id of row.player.      *)

Row(slot, pos, player) == [slot |-> slot, pos |-> pos, player |-> player]

get_player_status(player_id) ==
    IF player_id \in DOMAIN player_statuses
    THEN Some(player_statuses[player_id])
    ELSE None

RECURSIVE count_pos(_, _, _)
count_pos(rows, i, pos) ==
    IF i > Len(rows)
    THEN 0
    ELSE (IF rows[i].pos = pos THEN 1 ELSE 0) + count_pos(rows, i + 1, pos)

get_current_formation(r) ==
    Formation(count_pos(r.starters, 1, "G"), count_pos(r.starters, 1, "D"),
              count_pos(r.starters, 1, "M"), count_pos(r.starters, 1, "F"))

\* the formation after the swap: the starter's position count moved down
\* by one and the bench player's position count moved up by one
formation_after_swap(starter, bench, formation) ==
    LET delta(pos) == (IF bench.pos = pos THEN 1 ELSE 0)
                      - (IF starter.pos = pos THEN 1 ELSE 0)
    IN  Formation(formation.gk + delta("G"), formation.def_ + delta("D"),
                  formation.mid + delta("M"), formation.fwd + delta("F"))

\* can_swap_players without the check of the starter's lock
can_swap_players_ignoring_starter_lock(starter, bench, formation) ==
    LET bench_status == get_player_status(bench.player[1])
    IN  IF bench_status # None /\ bench_status[1].is_locked
        THEN FALSE
        ELSE is_legal(formation_after_swap(starter, bench, formation))

\* can_swap_players without the check of the bench player's lock
can_swap_players_ignoring_bench_lock(starter, bench, formation) ==
    LET starter_status == get_player_status(starter.player[1])
    IN  IF starter_status # None /\ starter_status[1].is_locked
        THEN FALSE
        ELSE is_legal(formation_after_swap(starter, bench, formation))

\* can_swap_players without the check of the formation after the swap
can_swap_players_any_formation(starter, bench, formation) ==
    LET starter_status == get_player_status(starter.player[1])
        bench_status == get_player_status(bench.player[1])
    IN  IF starter_status # None /\ starter_status[1].is_locked
        THEN FALSE
        ELSE IF bench_status # None /\ bench_status[1].is_locked
             THEN FALSE
             ELSE TRUE

\* can_swap_players: the boolean of the returned pair
can_swap_players(starter, bench, formation) ==
    LET starter_status == get_player_status(starter.player[1])
        bench_status == get_player_status(bench.player[1])
    IN  IF starter_status # None /\ starter_status[1].is_locked
        THEN FALSE
        ELSE IF bench_status # None /\ bench_status[1].is_locked
             THEN FALSE
             ELSE is_legal(formation_after_swap(starter, bench, formation))

-----------------------------------------------------------------------------
(* find_optimal_swaps *)

\* an element of starter_players or bench_players: (player_row, status)
Pair(row, status) == [row |-> row, status |-> status]

Swap(starter, bench, reason) ==
    [starter |-> starter, bench |-> bench, reason |-> reason]

Pass1Direct ==
    "Direct position match - replacing confirmed non-starter with player from later game"

Pass1Flexible ==
    "Position flexible swap - replacing confirmed non-starter with player from later game"

Pass2Direct ==
    "Direct position match - replacing non-starter with confirmed starter"

Pass2Flexible ==
    "Position flexible swap - replacing non-starter with confirmed starter"

\* the rows with a player, each with its status
RECURSIVE collect_players(_, _)
collect_players(rows, i) ==
    IF i > Len(rows)
    THEN << >>
    ELSE IF rows[i].player = None
         THEN collect_players(rows, i + 1)
         ELSE <<Pair(rows[i], get_player_status(rows[i].player[1]))>>
              \o collect_players(rows, i + 1)

\* a removal that finds no element equal to x and leaves the list as it is
list_remove_nothing(list, x, i) == list

\* list.remove(x): the list without its first element equal to x
RECURSIVE list_remove(_, _, _)
list_remove(list, x, i) ==
    IF i > Len(list)
    THEN list
    ELSE IF list[i] = x
         THEN SubSeq(list, 1, i - 1) \o SubSeq(list, i + 1, Len(list))
         ELSE list_remove(list, x, i + 1)

\* pass 1, the loop over bench_players for one starter, from index j on;
\* best, reason and latest are the loop's locals best_bench, best_reason
\* and latest_game_time
RECURSIVE pass1_scan(_, _, _, _, _, _, _, _)
pass1_scan(starter, benches, j, formation, now, best, reason, latest) ==
    IF j > Len(benches)
    THEN [best_bench |-> best, best_reason |-> reason]
    ELSE
    LET bench == benches[j].row
        bench_status == benches[j].status
        considered ==
            /\ bench_status # None
            /\ bench_status[1].game_time # None
            /\ ~is_game_soon(bench_status[1], now)
            /\ can_swap_players(starter, bench, formation)
            /\ \/ latest = None
               \/ bench_status[1].game_time[1] > latest[1]
    IN  IF considered /\ starter.pos = bench.pos
        THEN pass1_scan(starter, benches, j + 1, formation, now,
                        Some(bench), Pass1Direct, bench_status[1].game_time)
        ELSE IF considered /\ best = None
             THEN pass1_scan(starter, benches, j + 1, formation, now,
                             Some(bench), Pass1Flexible,
                             bench_status[1].game_time)
             ELSE pass1_scan(starter, benches, j + 1, formation, now,
                             best, reason, latest)

\* pass 1, the loop over starter_players from index i on
RECURSIVE pass1_loop(_, _, _, _, _, _)
pass1_loop(starters, i, benches, found, formation, now) ==
    IF i > Len(starters)
    THEN [swaps |-> found, bench_players |-> benches]
    ELSE
    LET starter == starters[i].row
        starter_status == starters[i].status
        eligible == /\ starter_status # None
                    /\ is_game_soon(starter_status[1], now)
                    /\ is_confirmed_not_starting(starter_status[1])
        best == pass1_scan(starter, benches, 1, formation, now,
                           None, None, None)
    IN  IF eligible /\ best.best_bench # None
        THEN pass1_loop(starters, i + 1,
                 list_remove(benches,
                     Pair(best.best_bench[1],
                          get_player_status(best.best_bench[1].player[1])), 1),
                 Append(found, Swap(starter, best.best_bench[1],
                                    best.best_reason)),
                 formation, now)
        ELSE pass1_loop(starters, i + 1, benches, found, formation, now)

\* pass 2 scan without the break at the first same-position candidate
RECURSIVE pass2_scan_no_break(_, _, _, _, _, _)
pass2_scan_no_break(starter, benches, j, formation, best_bench, best_reason) ==
    IF j > Len(benches)
    THEN [best_bench |-> best_bench, best_reason |-> best_reason]
    ELSE
    LET bench == benches[j].row
        bench_status == benches[j].status
        candidate ==
            /\ bench_status # None
            /\ bench_status[1].is_starting = Some(TRUE)
            /\ can_swap_players(starter, bench, formation)
    IN  IF candidate /\ starter.pos = bench.pos
        THEN pass2_scan_no_break(starter, benches, j + 1, formation,
                                 Some(bench), Pass2Direct)
        ELSE IF candidate /\ best_bench = None
             THEN pass2_scan_no_break(starter, benches, j + 1, formation,
                                      Some(bench), Pass2Flexible)
             ELSE pass2_scan_no_break(starter, benches, j + 1, formation,
                                      best_bench, best_reason)

\* pass 2, the loop over bench_players for one starter, from index j on
RECURSIVE pass2_scan(_, _, _, _, _, _)
pass2_scan(starter, benches, j, formation, best_bench, best_reason) ==
    IF j > Len(benches)
    THEN [best_bench |-> best_bench, best_reason |-> best_reason]
    ELSE
    LET bench == benches[j].row
        bench_status == benches[j].status
        candidate ==
            /\ bench_status # None
            /\ bench_status[1].is_starting = Some(TRUE)
            /\ can_swap_players(starter, bench, formation)
    IN  IF candidate /\ starter.pos = bench.pos
        THEN [best_bench |-> Some(bench), best_reason |-> Pass2Direct]
        ELSE IF candidate /\ best_bench = None
             THEN pass2_scan(starter, benches, j + 1, formation,
                             Some(bench), Pass2Flexible)
             ELSE pass2_scan(starter, benches, j + 1, formation,
                             best_bench, best_reason)

\* pass 2, the loop over starter_players from index i on
RECURSIVE pass2_loop(_, _, _, _, _)
pass2_loop(starters, i, benches, found, formation) ==
    IF i > Len(starters)
    THEN [swaps |-> found, bench_players |-> benches]
    ELSE
    LET starter == starters[i].row
        starter_status == starters[i].status
        eligible == /\ starter_status # None
                    /\ is_confirmed_not_starting(starter_status[1])
        best == pass2_scan(starter, benches, 1, formation, None, None)
    IN  IF eligible /\ best.best_bench # None
        THEN pass2_loop(starters, i + 1,
                 list_remove(benches,
                     Pair(best.best_bench[1],
                          get_player_status(best.best_bench[1].player[1])), 1),
                 Append(found, Swap(starter, best.best_bench[1],
                                    best.best_reason)),
                 formation)
        ELSE pass2_loop(starters, i + 1, benches, found, formation)

-----------------------------------------------------------------------------
(* The external collaborators: the rosters the roster query may return and *)
(* the feeds the starting-players page may hold.                           *)

\* the starting rows of a formation, in roster order G, D, M, F; the row
\* in slot i holds the player with id i
starters_of(f) ==
    [i \in 1..(f.gk + f.def_ + f.mid + f.fwd) |->
        Row(i,
            IF i <= f.gk THEN "G"
            ELSE IF i <= f.gk + f.def_ THEN "D"
            ELSE IF i <= f.gk + f.def_ + f.mid THEN "M"
            ELSE "F",
            Some(i))]

LegalFormations == {Formation(1, 4, 4, 2), Formation(1, 5, 2, 3)}

IllegalFormations == {Formation(1, 4, 4, 3)}

\* the bench rows, slots 101 and 102; a row may hold no player
BenchChoices ==
    {<<Row(101, "M", Some(101)), Row(102, "F", Some(102))>>,
     <<Row(101, "F", Some(101)), Row(102, "M", Some(102))>>,
     <<Row(101, "M", Some(101)), Row(102, "M", Some(102))>>,
     <<Row(101, "F", Some(101)), Row(102, "F", Some(102))>>,
     <<Row(101, "M", None), Row(102, "M", Some(102))>>}

Rosters ==
    {[starters |-> starters_of(f), bench |-> b] :
        f \in LegalFormations, b \in BenchChoices}
    \cup
    {[starters |-> starters_of(f),
      bench |-> <<Row(101, "M", Some(101)), Row(102, "F", Some(102))>>] :
        f \in IllegalFormations}

\* kickoff composites: "vs MUN<br/>10:00AM" and so on
Kickoff(opp, h, m, ap) == Some(<<Txt(opp), Br, Tm(h, m, ap)>>)

\* what the feed may report for a player of the starting eleven
StarterReports ==
    {<<"11", Kickoff("vs MUN", 10, 30, "AM")>>,
     <<"11", Kickoff("vs MUN", 10, 0, "AM")>>,
     <<"12", Some(<<Txt("TBD")>>)>>}

\* what the feed may report for a player on the bench
BenchReports ==
    {<<"10", Kickoff("vs ARS", 3, 0, "PM")>>,
     <<"12", Kickoff("vs CHE", 8, 0, "PM")>>,
     <<"10", Kickoff("vs ARS", 25, 0, "PM")>>,
     <<"10", Some(<<Txt("vs ARS"), Br, Tm(3, 0, "PM"), Br, Txt("ET")>>)>>,
     <<"10", Kickoff("vs MUN", 10, 0, "AM")>>}

\* the records of a player: none, or one record with one of the reports
records_of(player_id, reports) ==
    {<< >>} \cup {<<Player(Some(player_id), r[2], r[1])>> : r \in reports}

\* a record without scorerId
NoIdRecords == {<<Player(None, None, "10")>>}

Feeds ==
    {a \o b \o c \o d :
        a \in records_of(7, StarterReports),
        b \in records_of(8, StarterReports),
        c \in records_of(101, BenchReports) \cup NoIdRecords,
        d \in records_of(102, BenchReports)}

\* totalNumPages of the pagination descriptor
num_pages(feed) == (Len(feed) + PageSize - 1) \div PageSize

\* statsTable of page number page
stats_table(feed, page) ==
    SubSeq(feed, (page - 1) * PageSize + 1,
           IF page * PageSize < Len(feed) THEN page * PageSize ELSE Len(feed))

-----------------------------------------------------------------------------
(* The state machine *)

NoStatuses == << >>

\* the locals of one cycle, as they are before the cycle starts
fresh_locals ==
    /\ roster = None
    /\ statuses_before = NoStatuses
    /\ update_failed = FALSE
    /\ total_pages = 0
    /\ current_page = 0
    /\ all_players = << >>
    /\ pages_fetched = << >>
    /\ current_formation = None
    /\ current_time = None
    /\ starter_players = << >>
    /\ bench_players = << >>
    /\ swaps = << >>
    /\ optimal_swaps = << >>
    /\ swap_index = 0
    /\ swap_calls = << >>
    /\ lineup_error = FALSE
    /\ slept = None

Init ==
    /\ server_roster \in Rosters
    /\ server_feed \in Feeds
    /\ pc = "main"
    /\ player_statuses = NoStatuses
    /\ last_check_time = None
    /\ fresh_locals
    /\ call_args = None
    /\ call_result = None

env == <<server_roster, server_feed, call_args, call_result>>

update_locals ==
    <<statuses_before, update_failed, total_pages, current_page,
      all_players, pages_fetched>>

plan_locals ==
    <<current_formation, current_time, starter_players, bench_players, swaps>>

exec_locals == <<optimal_swaps, swap_index, swap_calls>>

loop_locals == <<lineup_error, slept>>

\* main: one iteration of "while True" enters optimize_lineup
main_loop ==
    /\ pc = "main"
    /\ pc' = "roster_info"
    /\ roster' = None
    /\ statuses_before' = NoStatuses
    /\ update_failed' = FALSE
    /\ total_pages' = 0
    /\ current_page' = 0
    /\ all_players' = << >>
    /\ pages_fetched' = << >>
    /\ current_formation' = None
    /\ current_time' = None
    /\ starter_players' = << >>
    /\ bench_players' = << >>
    /\ swaps' = << >>
    /\ optimal_swaps' = << >>
    /\ swap_index' = 0
    /\ swap_calls' = << >>
    /\ lineup_error' = FALSE
    /\ slept' = None
    /\ UNCHANGED <<env, player_statuses, last_check_time>>

\* optimize_lineup: api.roster_info returns the roster
roster_info_returns ==
    /\ pc = "roster_info"
    /\ roster' = Some(server_roster)
    /\ pc' = "formation"
    /\ UNCHANGED <<env, loop_locals, player_statuses, last_check_time, update_locals,
                   plan_locals, exec_locals>>

\* a roster fetch whose exception nobody catches: it leaves
\* optimize_lineup and main, and the process ends
roster_info_raises_uncaught ==
    /\ pc = "roster_info"
    /\ pc' = "stopped"
    /\ UNCHANGED <<env, loop_locals, roster, player_statuses, last_check_time,
                   update_locals, plan_locals, exec_locals>>

\* optimize_lineup: api.roster_info raises; the handler of optimize_lineup
\* logs the error and the cycle ends
roster_info_raises ==
    /\ pc = "roster_info"
    /\ lineup_error' = TRUE
    /\ pc' = "sleep"
    /\ UNCHANGED <<env, slept, roster, player_statuses, last_check_time,
                   update_locals, plan_locals, exec_locals>>

\* optimize_lineup without the return on an illegal formation
check_formation_no_return ==
    /\ pc = "formation"
    /\ pc' = "update"
    /\ UNCHANGED <<env, loop_locals, roster, player_statuses, last_check_time,
                   update_locals, plan_locals, exec_locals>>

\* optimize_lineup: the formation check
check_formation ==
    /\ pc = "formation"
    /\ pc' = IF is_legal(get_current_formation(roster[1]))
             THEN "update"
             ELSE "sleep"
    /\ UNCHANGED <<env, loop_locals, roster, player_statuses, last_check_time,
                   update_locals, plan_locals, exec_locals>>

\* update_player_statuses: read the clock and clear the status map
update_begin ==
    /\ pc = "update"
    /\ \E now \in ClockValues : last_check_time' = Some(now)
    /\ statuses_before' = player_statuses
    /\ player_statuses' = NoStatuses
    /\ pc' = "fetch_first"
    /\ UNCHANGED <<env, loop_locals, roster, update_failed, total_pages, current_page,
                   all_players, pages_fetched, plan_locals, exec_locals>>

\* update_player_statuses: the first page arrives, with the page count
fetch_first_page ==
    /\ pc = "fetch_first"
    /\ pages_fetched' = Append(pages_fetched, 1)
    /\ total_pages' = num_pages(server_feed)
    /\ current_page' = 1
    /\ pc' = "fetch_loop"
    /\ UNCHANGED <<env, loop_locals, roster, player_statuses, last_check_time,
                   statuses_before, update_failed, all_players,
                   plan_locals, exec_locals>>

\* update_player_statuses: the fetch of the first page raises
fetch_first_page_raises ==
    /\ pc = "fetch_first"
    /\ pages_fetched' = Append(pages_fetched, 1)
    /\ update_failed' = TRUE
    /\ pc' = "plan"
    /\ UNCHANGED <<env, loop_locals, roster, player_statuses, last_check_time,
                   statuses_before, total_pages, current_page, all_players,
                   plan_locals, exec_locals>>

\* update_player_statuses: one iteration of "while current_page <=
\* total_pages"
fetch_loop ==
    /\ pc = "fetch_loop"
    /\ current_page <= total_pages
    /\ pages_fetched' = IF current_page > 1
                        THEN Append(pages_fetched, current_page)
                        ELSE pages_fetched
    /\ all_players' = all_players \o stats_table(server_feed, current_page)
    /\ current_page' = current_page + 1
    /\ UNCHANGED <<env, loop_locals, pc, roster, player_statuses, last_check_time,
                   statuses_before, update_failed, total_pages,
                   plan_locals, exec_locals>>

\* update_player_statuses: the fetch of a later page raises
fetch_loop_raises ==
    /\ pc = "fetch_loop"
    /\ current_page <= total_pages
    /\ current_page > 1
    /\ pages_fetched' = Append(pages_fetched, current_page)
    /\ update_failed' = TRUE
    /\ pc' = "plan"
    /\ UNCHANGED <<env, loop_locals, roster, player_statuses, last_check_time,
                   statuses_before, total_pages, current_page, all_players,
                   plan_locals, exec_locals>>

\* update_player_statuses: the loop over all_players
process_all_players ==
    /\ pc = "fetch_loop"
    /\ current_page > total_pages
    /\ LET result == process_players(all_players, 1, player_statuses,
                                     last_check_time[1])
       IN  /\ player_statuses' = result.statuses
           /\ update_failed' = result.raised
    /\ pc' = "plan"
    /\ UNCHANGED <<env, loop_locals, roster, last_check_time, statuses_before,
                   total_pages, current_page, all_players, pages_fetched,
                   plan_locals, exec_locals>>

\* find_optimal_swaps: formation snapshot, clock read, the two lists;
\* statuses_before, the record of the map at the entry of the refresh that
\* has returned, is dropped
plan_begin ==
    /\ pc = "plan"
    /\ current_formation' = Some(get_current_formation(roster[1]))
    /\ \E drift \in ClockDrift :
          current_time' = Some(last_check_time[1] + drift)
    /\ starter_players' = collect_players(roster[1].starters, 1)
    /\ bench_players' = collect_players(roster[1].bench, 1)
    /\ swaps' = << >>
    /\ statuses_before' = NoStatuses
    /\ pc' = "pass1"
    /\ UNCHANGED <<env, loop_locals, roster, player_statuses, last_check_time,
                   update_failed, total_pages, current_page, all_players,
                   pages_fetched, exec_locals>>

\* a pass 1 that takes the bench players it proposes out of the roster
\* itself instead of out of its own list
pass1_removing_from_roster ==
    /\ pc = "pass1"
    /\ LET result == pass1_loop(starter_players, 1, bench_players, swaps,
                                current_formation[1], current_time[1])
       IN  /\ swaps' = result.swaps
           /\ bench_players' = result.bench_players
           /\ roster' = Some([roster[1] EXCEPT !.bench =
                  [k \in 1..Len(result.bench_players) |->
                      result.bench_players[k].row]])
    /\ pc' = "pass2"
    /\ UNCHANGED <<env, loop_locals, player_statuses, last_check_time,
                   update_locals, current_formation, current_time,
                   starter_players, exec_locals>>

\* find_optimal_swaps: priority 1
pass1 ==
    /\ pc = "pass1"
    /\ LET result == pass1_loop(starter_players, 1, bench_players, swaps,
                                current_formation[1], current_time[1])
       IN  /\ swaps' = result.swaps
           /\ bench_players' = result.bench_players
    /\ pc' = "pass2"
    /\ UNCHANGED <<env, loop_locals, roster, player_statuses, last_check_time,
                   update_locals, current_formation, current_time,
                   starter_players, exec_locals>>

\* a pass 2 that submits the proposals itself, before it returns
pass2_submitting ==
    /\ pc = "pass2"
    /\ LET result == pass2_loop(starter_players, 1, bench_players, swaps,
                                current_formation[1])
       IN  /\ swaps' = result.swaps
           /\ bench_players' = result.bench_players
           /\ optimal_swaps' = result.swaps
           /\ swap_calls' =
                  [k \in 1..Len(result.swaps) |->
                      [starter |-> result.swaps[k].starter.player[1],
                       bench |-> result.swaps[k].bench.player[1],
                       outcome |-> "success"]]
           /\ pc' = IF result.swaps = << >> THEN "sleep" ELSE "execute"
    /\ swap_index' = 1
    /\ UNCHANGED <<env, loop_locals, roster, player_statuses, last_check_time,
                   update_locals, current_formation, current_time,
                   starter_players>>

\* find_optimal_swaps: priority 2 and the return to optimize_lineup, which
\* ends the cycle when there is no proposal
pass2 ==
    /\ pc = "pass2"
    /\ LET result == pass2_loop(starter_players, 1, bench_players, swaps,
                                current_formation[1])
       IN  /\ swaps' = result.swaps
           /\ bench_players' = result.bench_players
           /\ optimal_swaps' = result.swaps
           /\ pc' = IF result.swaps = << >> THEN "sleep" ELSE "execute"
    /\ swap_index' = 1
    /\ UNCHANGED <<env, loop_locals, roster, player_statuses, last_check_time,
                   update_locals, current_formation, current_time,
                   starter_players, swap_calls>>

SwapOutcomes == {"success", "failure", "exception"}

\* the execution loop without the try around the swap call: an exception
\* leaves the loop
execute_swap_unguarded ==
    /\ pc = "execute"
    /\ swap_index <= Len(optimal_swaps)
    /\ \E outcome \in SwapOutcomes :
          /\ swap_calls' = Append(swap_calls,
                [starter |-> optimal_swaps[swap_index].starter.player[1],
                 bench |-> optimal_swaps[swap_index].bench.player[1],
                 outcome |-> outcome])
          /\ pc' = IF outcome = "exception" THEN "sleep" ELSE pc
    /\ swap_index' = swap_index + 1
    /\ UNCHANGED <<env, loop_locals, roster, player_statuses, last_check_time,
                   update_locals, plan_locals, optimal_swaps>>

\* optimize_lineup: one iteration of "for starter, bench, _ in
\* optimal_swaps": the call of api.swap_players and its outcome
execute_swap ==
    /\ pc = "execute"
    /\ swap_index <= Len(optimal_swaps)
    /\ \E outcome \in SwapOutcomes :
          swap_calls' = Append(swap_calls,
              [starter |-> optimal_swaps[swap_index].starter.player[1],
               bench |-> optimal_swaps[swap_index].bench.player[1],
               outcome |-> outcome])
    /\ swap_index' = swap_index + 1
    /\ UNCHANGED <<env, loop_locals, pc, roster, player_statuses, last_check_time,
                   update_locals, plan_locals, optimal_swaps>>

\* optimize_lineup: the loop over optimal_swaps is exhausted
execute_done ==
    /\ pc = "execute"
    /\ swap_index > Len(optimal_swaps)
    /\ pc' = "sleep"
    /\ UNCHANGED <<env, loop_locals, roster, player_statuses, last_check_time,
                   update_locals, plan_locals, exec_locals>>

\* main: time.sleep(check_interval)
sleep ==
    /\ pc = "sleep"
    /\ slept' = Some(CheckInterval)
    /\ pc' = "main"
    /\ UNCHANGED <<env, lineup_error, roster, player_statuses, last_check_time,
                   update_locals, plan_locals, exec_locals>>

\* the positions of main and of what it calls
MainPositions ==
    {"main", "roster_info", "formation", "update", "fetch_first",
     "fetch_loop", "plan", "pass1", "pass2", "execute", "sleep"}

\* main: KeyboardInterrupt, which no "except Exception" catches, reaches
\* the break of main wherever the control flow is; the process ends and
\* its objects with it
keyboard_interrupt ==
    /\ pc \in MainPositions
    /\ pc' = "stopped"
    /\ player_statuses' = NoStatuses
    /\ last_check_time' = None
    /\ roster' = None
    /\ statuses_before' = NoStatuses
    /\ update_failed' = FALSE
    /\ total_pages' = 0
    /\ current_page' = 0
    /\ all_players' = << >>
    /\ pages_fetched' = << >>
    /\ current_formation' = None
    /\ current_time' = None
    /\ starter_players' = << >>
    /\ bench_players' = << >>
    /\ swaps' = << >>
    /\ optimal_swaps' = << >>
    /\ swap_index' = 0
    /\ swap_calls' = << >>
    /\ lineup_error' = FALSE
    /\ slept' = None
    /\ UNCHANGED env

\* one step of main while no KeyboardInterrupt arrives
running ==
    \/ main_loop
    \/ roster_info_returns
    \/ roster_info_raises
    \/ check_formation
    \/ update_begin
    \/ fetch_first_page
    \/ fetch_first_page_raises
    \/ fetch_loop
    \/ fetch_loop_raises
    \/ process_all_players
    \/ plan_begin
    \/ pass1
    \/ pass2
    \/ execute_swap
    \/ execute_done
    \/ sleep

Next ==
    \/ running
    \/ keyboard_interrupt

Spec == Init /\ [][Next]_vars

\* the worlds in which the loop is followed for ever: the bench of a
\* midfielder and a forward, and a feed with a record for each of the
\* four players it may report on
InitRunning ==
    /\ Init
    /\ server_roster.bench = <<Row(101, "M", Some(101)), Row(102, "F", Some(102))>>
    /\ Len(server_feed) = 4

\* main left to run: every call returns or raises, no KeyboardInterrupt
SpecRunning == InitRunning /\ [][running]_vars /\ WF_vars(running)

-----------------------------------------------------------------------------
(* can_swap_players called directly, on any pair of rows and any formation *)
(* snapshot, with the statuses the feed can produce for the two players.   *)

ProbeFormations ==
    {Formation(g, d, m, f) : g \in 1..2, d \in 3..5, m \in 2..5, f \in 1..3}

Positions == {"G", "D", "M", "F"}

\* the status maps over the two players: no entry, or a parsed report
ProbeStatuses ==
    LET parsed == {parse_player(Player(Some(0), r[2], r[1]), now) :
                      r \in StarterReports \cup BenchReports,
                      now \in ClockValues}
        entries == {None} \cup {Some(st) : st \in parsed}
    IN  {[id \in (IF a = None THEN {} ELSE {7})
                 \cup (IF b = None THEN {} ELSE {101}) |->
             IF id = 7 THEN a[1] ELSE b[1]] :
            a \in entries, b \in entries}

InitCanSwap ==
    /\ server_roster \in {r \in Rosters :
                             /\ r.bench[1].player = None
                             /\ get_current_formation(r) = Formation(1, 4, 4, 2)}
    /\ server_feed = << >>
    /\ pc = "can_swap"
    /\ player_statuses \in ProbeStatuses
    /\ last_check_time = None
    /\ fresh_locals
    /\ \E sp \in Positions, bp \in Positions, f \in ProbeFormations :
          call_args = Some([starter |-> Row(7, sp, Some(7)),
                            bench |-> Row(101, bp, Some(101)),
                            formation |-> f])
    /\ call_result = None

can_swap_call ==
    /\ pc = "can_swap"
    /\ call_result' = Some(can_swap_players(call_args[1].starter,
                                            call_args[1].bench,
                                            call_args[1].formation))
    /\ pc' = "can_swap_returned"
    /\ UNCHANGED <<server_roster, server_feed, call_args, roster,
                   player_statuses, last_check_time, update_locals,
                   plan_locals, exec_locals, loop_locals>>

NextCanSwap == can_swap_call

SpecCanSwap == InitCanSwap /\ [][NextCanSwap]_vars

-----------------------------------------------------------------------------
(* Formation.is_legal called directly *)

\* the formations is_legal is called on: every count from none to one
\* more than the largest a legal formation allows
LegalProbes ==
    {Formation(g, d, m, f) : g \in 0..2, d \in 0..6, m \in 0..6, f \in 0..4}

\* no optimizer at work: only the call and its result
no_optimizer ==
    /\ server_roster \in {r \in Rosters :
                             /\ r.bench[1].player = None
                             /\ get_current_formation(r) = Formation(1, 4, 4, 2)}
    /\ server_feed = << >>
    /\ player_statuses = NoStatuses
    /\ last_check_time = None
    /\ fresh_locals
    /\ call_result = None

InitIsLegal ==
    /\ no_optimizer
    /\ pc = "is_legal"
    /\ \E f \in LegalProbes : call_args = Some(f)

is_legal_call ==
    /\ pc = "is_legal"
    /\ call_result' = Some(is_legal(call_args[1]))
    /\ pc' = "is_legal_returned"
    /\ UNCHANGED <<server_roster, server_feed, call_args, roster,
                   player_statuses, last_check_time, update_locals,
                   plan_locals, exec_locals, loop_locals>>

NextIsLegal == is_legal_call

SpecIsLegal == InitIsLegal /\ [][NextIsLegal]_vars

-----------------------------------------------------------------------------
(* PlayerStatus.is_game_soon called directly *)

\* kickoff relative to now, in seconds: in the past, now, around the two
\* hours and well beyond them
SoonOffsets == {0 - 3600, 0, 60, 7199, 7200, 7201, 10800}

\* the readings of the clock the planner passes as now
ProbeClock == {c + drift : c \in ClockValues, drift \in ClockDrift}

Tristate == {None, Some(TRUE), Some(FALSE)}

\* the calls of is_game_soon: a status and the argument now
SoonProbes ==
    {[status |-> PlayerStatus(s, b, g, FALSE, None), now |-> now] :
        s \in Tristate, b \in Tristate,
        g \in {None} \cup {Some(t + o) : t \in ProbeClock, o \in SoonOffsets},
        now \in ProbeClock}

InitIsGameSoon ==
    /\ no_optimizer
    /\ pc = "is_game_soon"
    /\ \E probe \in SoonProbes : call_args = Some(probe)

is_game_soon_call ==
    /\ pc = "is_game_soon"
    /\ call_result' = Some(is_game_soon(call_args[1].status, call_args[1].now))
    /\ pc' = "is_game_soon_returned"
    /\ UNCHANGED <<server_roster, server_feed, call_args, roster,
                   player_statuses, last_check_time, update_locals,
                   plan_locals, exec_locals, loop_locals>>

NextIsGameSoon == is_game_soon_call

SpecIsGameSoon == InitIsGameSoon /\ [][NextIsGameSoon]_vars

-----------------------------------------------------------------------------
(* Properties of find_optimal_swaps *)

\* the player of a row has a status entry that is locked
has_locked_status(row) ==
    /\ row.player[1] \in DOMAIN player_statuses
    /\ player_statuses[row.player[1]].is_locked

\* the counts of the snapshot after one starter of position out and one
\* bench player of position in_ are exchanged satisfy every legality clause
legal_after(formation, out, in_) ==
    LET n(pos, count) == count - (IF out = pos THEN 1 ELSE 0)
                               + (IF in_ = pos THEN 1 ELSE 0)
        gk == n("G", formation.gk)
        def_ == n("D", formation.def_)
        mid == n("M", formation.mid)
        fwd == n("F", formation.fwd)
    IN  /\ gk + def_ + mid + fwd = 11
        /\ gk = 1
        /\ def_ \in 3..5
        /\ mid \in 2..5
        /\ fwd \in 1..3

Pass1Reasons == {Pass1Direct, Pass1Flexible}

Pass2Reasons == {Pass2Direct, Pass2Flexible}

\* C1: every proposal of find_optimal_swaps, from pass 1 or pass 2, passes
\* the can-swap check against the formation snapshot: neither player has a
\* locked status and the snapshot with the starter's position count
\* decremented and the bench player's incremented is legal
C1_ProposalsPassCanSwap ==
    \A k \in 1..Len(swaps) :
        /\ ~has_locked_status(swaps[k].starter)
        /\ ~has_locked_status(swaps[k].bench)
        /\ legal_after(current_formation[1], swaps[k].starter.pos,
                       swaps[k].bench.pos)

\* C1 witness: the planner has returned proposals of both passes, one of
\* them across positions, while some player of the roster is locked
C1_Witness ==
    /\ pc = "execute"
    /\ \E k \in 1..Len(swaps) : swaps[k].reason \in Pass1Reasons
    /\ \E k \in 1..Len(swaps) :
          /\ swaps[k].reason \in Pass2Reasons
          /\ swaps[k].starter.pos # swaps[k].bench.pos
    /\ \E id \in DOMAIN player_statuses : player_statuses[id].is_locked

\* C2: no bench player appears in more than one proposal, and a bench
\* player of a proposal is no longer in the candidate pool
C2_BenchPlayerProposedOnce ==
    /\ \A i, j \in 1..Len(swaps) :
          i # j => swaps[i].bench.player # swaps[j].bench.player
    /\ \A k \in 1..Len(swaps) :
          \A j \in 1..Len(bench_players) :
              bench_players[j].row.player # swaps[k].bench.player

\* C2 witness: the second proposal went across positions although the
\* bench player of the first proposal has the second starter's position
C2_Witness ==
    /\ pc = "execute"
    /\ Len(swaps) >= 2
    /\ swaps[1].starter # swaps[2].starter
    /\ swaps[1].bench.pos = swaps[2].starter.pos
    /\ swaps[2].bench.pos # swaps[2].starter.pos

\* C3: no starter is the starter of more than one proposal, pass 1 and
\* pass 2 together
C3_StarterProposedOnce ==
    \A i, j \in 1..Len(swaps) :
        i # j => swaps[i].starter.player # swaps[j].starter.player

\* the indices of the bench rows that hold a player, in bench order
BenchIndices ==
    {j \in 1..Len(roster[1].bench) : roster[1].bench[j].player # None}

\* the bench row at index j is the bench player of one of the proposals ks
claimed_by(j, ks) ==
    \E k \in ks : swaps[k].bench = roster[1].bench[j]

\* the pair passes the can-swap check against the snapshot
passes_can_swap(starter, bench) ==
    /\ ~has_locked_status(starter)
    /\ ~has_locked_status(bench)
    /\ legal_after(current_formation[1], starter.pos, bench.pos)

\* pass 1: the same-position candidates for the starter of proposal k among
\* the bench players no earlier proposal has claimed
same_position_later_game(k) ==
    {j \in BenchIndices :
        LET bench == roster[1].bench[j]
        IN  /\ ~claimed_by(j, 1..(k - 1))
            /\ bench.player[1] \in DOMAIN player_statuses
            /\ player_statuses[bench.player[1]].game_time # None
            /\ player_statuses[bench.player[1]].game_time[1]
                   - current_time[1] > SoonSeconds
            /\ passes_can_swap(swaps[k].starter, bench)
            /\ bench.pos = swaps[k].starter.pos}

\* C4: in pass 1, whenever an unclaimed same-position candidate (known game
\* time, game not soon, passing can-swap) exists for the starter, the
\* proposed bench player is one of them and none of them has a later game
C4_Pass1PrefersSamePositionLatest ==
    \A k \in 1..Len(swaps) :
        (swaps[k].reason \in Pass1Reasons
         /\ same_position_later_game(k) # {})
        => \E j \in same_position_later_game(k) :
              /\ swaps[k].bench = roster[1].bench[j]
              /\ \A other \in same_position_later_game(k) :
                    player_statuses[roster[1].bench[other].player[1]]
                        .game_time[1]
                    <= player_statuses[roster[1].bench[j].player[1]]
                           .game_time[1]

\* find_optimal_swaps has returned in this cycle
planner_returned ==
    /\ current_formation # None
    /\ pc \notin {"pass1", "pass2"}

\* the proposals of each pass
pass1_proposals == {k \in 1..Len(swaps) : swaps[k].reason \in Pass1Reasons}

pass2_proposals == {k \in 1..Len(swaps) : swaps[k].reason \in Pass2Reasons}

\* the pass 2 proposals whose starter is the i-th of starter_players
pass2_proposals_of(i) ==
    {k \in pass2_proposals : swaps[k].starter = starter_players[i].row}

\* pass 2: the candidates for the i-th starter when its turn comes: the
\* bench players not claimed by pass 1 nor by pass 2 for an earlier
\* starter, confirmed starting and passing can-swap
pass2_candidates(i) ==
    {j \in BenchIndices :
        LET bench == roster[1].bench[j]
        IN  /\ ~claimed_by(j, pass1_proposals)
            /\ ~claimed_by(j, UNION {pass2_proposals_of(e) : e \in 1..(i - 1)})
            /\ bench.player[1] \in DOMAIN player_statuses
            /\ player_statuses[bench.player[1]].is_starting = Some(TRUE)
            /\ passes_can_swap(starter_players[i].row, bench)}

pass2_same_position(i) ==
    {j \in pass2_candidates(i) :
        roster[1].bench[j].pos = starter_players[i].row.pos}

\* the least index of a non-empty set of indices
first_of(indices) == CHOOSE j \in indices : \A o \in indices : j <= o

\* C5: in pass 2 a starter confirmed not starting gets the first unclaimed
\* confirmed-starting can-swap bench player of its own position, else the
\* first such bench player of any position, else no proposal
C5_Pass2TakesFirstCandidate ==
    planner_returned =>
    \A i \in 1..Len(starter_players) :
        (/\ starter_players[i].status # None
         /\ is_confirmed_not_starting(starter_players[i].status[1]))
        => IF pass2_same_position(i) # {}
           THEN \E k \in pass2_proposals_of(i) :
                   /\ pass2_proposals_of(i) = {k}
                   /\ swaps[k].bench =
                          roster[1].bench[first_of(pass2_same_position(i))]
           ELSE IF pass2_candidates(i) # {}
           THEN \E k \in pass2_proposals_of(i) :
                   /\ pass2_proposals_of(i) = {k}
                   /\ swaps[k].bench =
                          roster[1].bench[first_of(pass2_candidates(i))]
           ELSE pass2_proposals_of(i) = {}

\* C5 witness: pass 2 proposed the second bench player, of the starter's
\* position, while the first bench player was a candidate of another
\* position; and another starter had no candidate and got no proposal
C5_Witness ==
    /\ planner_returned
    /\ \E i \in 1..Len(starter_players) :
          /\ pass2_same_position(i) # {}
          /\ first_of(pass2_candidates(i)) < first_of(pass2_same_position(i))
    /\ \E i \in 1..Len(starter_players) :
          /\ starter_players[i].status # None
          /\ is_confirmed_not_starting(starter_players[i].status[1])
          /\ pass2_candidates(i) = {}

\* C5 witness of the fallback: pass 2 proposed a bench player of another
\* position because no same-position candidate was left
C5_WitnessFlexible ==
    /\ planner_returned
    /\ \E i \in 1..Len(starter_players) :
          /\ pass2_same_position(i) = {}
          /\ pass2_candidates(i) # {}
          /\ pass2_proposals_of(i) # {}

-----------------------------------------------------------------------------
(* Properties of can_swap_players *)

\* C6: can_swap_players accepts the pair if and only if neither player has
\* a locked status and the snapshot with the starter's count moved down and
\* the bench player's count moved up is legal
C6_CanSwapIff ==
    pc = "can_swap_returned" =>
        (call_result[1] <=>
            /\ ~has_locked_status(call_args[1].starter)
            /\ ~has_locked_status(call_args[1].bench)
            /\ legal_after(call_args[1].formation, call_args[1].starter.pos,
                           call_args[1].bench.pos))

\* C6 witness: a pair rejected only because the bench player is locked:
\* the starter is not locked and the resulting formation is legal
C6_Witness ==
    /\ pc = "can_swap_returned"
    /\ call_result = Some(FALSE)
    /\ has_locked_status(call_args[1].bench)
    /\ ~has_locked_status(call_args[1].starter)
    /\ legal_after(call_args[1].formation, call_args[1].starter.pos,
                   call_args[1].bench.pos)

\* C6 witness of the formation rejection: nobody is locked, the starter is
\* a midfielder, the bench player a forward and midfielders drop to 1
C6_WitnessFormation ==
    /\ pc = "can_swap_returned"
    /\ call_result = Some(FALSE)
    /\ ~has_locked_status(call_args[1].bench)
    /\ ~has_locked_status(call_args[1].starter)
    /\ call_args[1].formation = Formation(1, 5, 2, 3)
    /\ call_args[1].starter.pos = "M"
    /\ call_args[1].bench.pos = "F"

\* C6 witness of an accepted pair
C6_WitnessAccepted ==
    /\ pc = "can_swap_returned"
    /\ call_result = Some(TRUE)
    /\ call_args[1].starter.pos # call_args[1].bench.pos

-----------------------------------------------------------------------------
(* Properties of update_player_statuses *)

\* C7: after a refresh that ended in an error the status map is the map
\* from before the call
C7_FailedRefreshKeepsMap ==
    (pc = "plan" /\ update_failed) => player_statuses = statuses_before

\* the number of separators in a composite
separators(composite) ==
    Cardinality({i \in 1..Len(composite) : composite[i] = Br})

\* the composite of the record does not split into exactly two parts
split_fails(player) ==
    /\ player.opponent # None
    /\ separators(player.opponent[1]) # 1

\* the composite splits into two parts and the second is not a clock time
time_fails(player) ==
    /\ player.opponent # None
    /\ separators(player.opponent[1]) = 1
    /\ LET composite == player.opponent[1]
           last == composite[Len(composite)]
       IN  ~ /\ Len(composite) >= 2
             /\ composite[Len(composite) - 1] = Br
             /\ last.k = "time"
             /\ last.h \in 1..12
             /\ last.m \in 0..59
             /\ last.ap \in {"AM", "PM"}

\* every page of the feed was fetched and every record has a scorerId
feed_processed ==
    /\ pc = "plan"
    /\ all_players = server_feed
    /\ all_players # << >>
    /\ \A i \in 1..Len(all_players) : all_players[i].scorerId # None

\* C8: with a record whose composite does not split in two, or whose time
\* token does not parse, the refresh completes, that record gets an entry
\* with game_time unset and is_locked false (and opponent unset when the
\* split failed), and every other record gets the entry of its own parse
C8_MalformedRecordIsLocal ==
    (/\ feed_processed
     /\ \E i \in 1..Len(all_players) :
           split_fails(all_players[i]) \/ time_fails(all_players[i]))
    => /\ ~update_failed
       /\ \A i \in 1..Len(all_players) :
             LET player == all_players[i]
                 id == player.scorerId[1]
             IN  /\ id \in DOMAIN player_statuses
                 /\ (split_fails(player) \/ time_fails(player))
                    => /\ player_statuses[id].game_time = None
                       /\ player_statuses[id].is_locked = FALSE
                 /\ split_fails(player)
                    => player_statuses[id].opponent = None
                 /\ ~(split_fails(player) \/ time_fails(player))
                    => /\ player_statuses[id]
                              = parse_player(player, last_check_time[1])
                       /\ player.opponent # None
                          => /\ player_statuses[id].game_time # None
                             /\ player_statuses[id].opponent # None

\* C8 witness: a processed feed with a record whose split failed, a record
\* whose time did not parse and, after them, a record with a kickoff time
C8_Witness ==
    /\ feed_processed
    /\ ~update_failed
    /\ \E i, j, k \in 1..Len(all_players) :
          /\ i < k /\ j < k
          /\ split_fails(all_players[i])
          /\ time_fails(all_players[j])
          /\ player_statuses[all_players[k].scorerId[1]].game_time # None

-----------------------------------------------------------------------------
(* Properties of optimize_lineup *)

\* the fetched roster has an illegal starting formation
illegal_roster ==
    /\ roster # None
    /\ ~LET f == get_current_formation(roster[1])
        IN  /\ f.gk + f.def_ + f.mid + f.fwd = 11
            /\ f.gk = 1
            /\ f.def_ \in 3..5
            /\ f.mid \in 2..5
            /\ f.fwd \in 1..3

\* C9: in a cycle whose roster has an illegal starting formation the
\* planner does not run and the swap operation is not invoked
C9_IllegalFormationEndsCycle ==
    illegal_roster =>
        /\ pc \in {"formation", "sleep", "main"}
        /\ current_formation = None
        /\ swaps = << >>
        /\ optimal_swaps = << >>
        /\ swap_calls = << >>

\* C9 witness: a cycle ended on an illegal formation while the feed
\* reports a starter as benched and a bench player as starting
C9_Witness ==
    /\ illegal_roster
    /\ pc = "sleep"
    /\ \E i, j \in 1..Len(server_feed) :
          /\ server_feed[i].miscDisplayType = "11"
          /\ server_feed[j].miscDisplayType = "10"
          /\ server_feed[j].scorerId = Some(101)

\* C10: every proposal is submitted to the swap operation once and in
\* proposal order, whatever the outcomes of the earlier calls
C10_EveryProposalSubmittedInOrder ==
    /\ \A k \in 1..Len(swap_calls) :
          /\ k <= Len(optimal_swaps)
          /\ swap_calls[k].starter = optimal_swaps[k].starter.player[1]
          /\ swap_calls[k].bench = optimal_swaps[k].bench.player[1]
    /\ pc = "execute" => Len(swap_calls) = swap_index - 1
    /\ pc \in {"sleep", "main"} => Len(swap_calls) = Len(optimal_swaps)

\* C10 witness: a cycle ended with two proposals and two swap calls, the
\* first call raised and the second returned the failure indicator
C10_Witness ==
    /\ pc = "sleep"
    /\ Len(optimal_swaps) = 2
    /\ Len(swap_calls) = 2
    /\ swap_calls[1].outcome = "exception"
    /\ swap_calls[2].outcome = "failure"
    /\ swap_calls[1].bench # swap_calls[2].bench

\* ---------------------------------------------------------------------
\* C11  When a cycle fails at the top level (the roster fetch raises a
\*      network error), main waits the 60-second back-off, not the
\*      300-second check interval, before the next cycle: whenever main
\*      is about to begin a cycle after one in which optimize_lineup ran
\*      into an exception, its last sleep was RetrySeconds long.
C11_FailedCycleBacksOff ==
    (pc = "main" /\ lineup_error) => slept = Some(RetrySeconds)

\* ---------------------------------------------------------------------
\* C12  No failure inside a cycle ends the main loop.  While no
\*      KeyboardInterrupt arrives main never leaves the loop, whatever
\*      the roster fetch, the page fetches, the records and the swaps of
\*      a cycle do, and after every cycle another cycle begins: the call
\*      of optimize_lineup is reached again and again.
C12_LoopKeepsCycling ==
    /\ [](pc # "stopped")
    /\ []<>(pc = "roster_info")

\* a cycle whose roster fetch raised is over and main is about to begin
\* the next one
C12_Witness ==
    /\ pc = "main"
    /\ lineup_error
    /\ slept # None

\* ---------------------------------------------------------------------
\* find_optimal_swaps as one call on a roster, the status map of the
\* optimizer and a clock reading: snapshot, the two lists, pass 1, pass 2
find_optimal_swaps(r, now) ==
    LET formation == get_current_formation(r)
        starters == collect_players(r.starters, 1)
        benches == collect_players(r.bench, 1)
        first == pass1_loop(starters, 1, benches, << >>, formation, now)
    IN  pass2_loop(starters, 1, first.bench_players, first.swaps,
                   formation).swaps

\* C13  find_optimal_swaps is repeatable: once it has returned, a second
\*      run on the roster and the status map as the first run left them,
\*      at the same current time, returns the same sequence of proposals
\*      (same starters, same bench players, same reasons, same order).
C13_PlannerRepeatable ==
    planner_returned =>
        find_optimal_swaps(roster[1], current_time[1]) = swaps

\* the planner has returned two proposals, so that their order matters
C13_Witness ==
    /\ planner_returned
    /\ Len(swaps) = 2
    /\ swaps[1].bench # swaps[2].bench

\* ---------------------------------------------------------------------
\* C14  find_optimal_swaps only reads: from its entry to its return the
\*      roster and the status map stay as they are and api.swap_players is
\*      not called.  A call of api.swap_players is made only by the
\*      execution loop of optimize_lineup, after the planner has returned,
\*      on the proposals the planner returned.
C14_PlannerOnlyReads ==
    [][/\ (pc \in {"plan", "pass1", "pass2"} /\ pc' # "stopped") =>
              /\ roster' = roster
              /\ player_statuses' = player_statuses
              /\ swap_calls' = swap_calls
       /\ Len(swap_calls') > Len(swap_calls) =>
              /\ pc = "execute"
              /\ planner_returned
              /\ optimal_swaps = swaps]_vars

\* the planner has returned proposals computed from a non-empty status
\* map, and no swap has been submitted yet
C14_Witness ==
    /\ pc = "execute"
    /\ swaps # << >>
    /\ swap_calls = << >>
    /\ roster = Some(server_roster)
    /\ player_statuses # NoStatuses

\* ---------------------------------------------------------------------
\* update_player_statuses has returned and no page fetch raised
refresh_fetched_all ==
    /\ pc = "plan"
    /\ current_page > total_pages

\* C15  A refresh in which no fetch fails retrieves every page from 1 up
\*      to the total the pagination descriptor declares, each exactly
\*      once and in increasing order, and the status map it leaves has an
\*      entry for every record of every one of those pages (for every
\*      record that carries a player identifier, the key of the map).
C15_RefreshCoversEveryPage ==
    refresh_fetched_all =>
        /\ total_pages = num_pages(server_feed)
        /\ \A p \in 1..total_pages :
              Cardinality({k \in 1..Len(pages_fetched) :
                              pages_fetched[k] = p}) = 1
        /\ \A j, k \in 1..Len(pages_fetched) :
              j < k => pages_fetched[j] < pages_fetched[k]
        /\ \A p \in 1..total_pages :
              \A i \in 1..Len(stats_table(server_feed, p)) :
                 LET player == stats_table(server_feed, p)[i]
                 IN  player.scorerId # None =>
                        player.scorerId[1] \in DOMAIN player_statuses

-----------------------------------------------------------------------------
(* Properties of Formation and PlayerStatus *)

\* C16  Formation.is_legal() is true exactly when the four counts sum to
\*      eleven, there is one goalkeeper, three to five defenders, two to
\*      five midfielders and one to three forwards; in particular 1-4-4-2
\*      is legal and 1-4-4-3, with twelve players, is not.
C16_IsLegalIff ==
    pc = "is_legal_returned" =>
        LET f == call_args[1]
        IN  /\ call_result[1] <=>
                  /\ f.gk + f.def_ + f.mid + f.fwd = 11
                  /\ f.gk = 1
                  /\ f.def_ \in 3..5
                  /\ f.mid \in 2..5
                  /\ f.fwd \in 1..3
            /\ f = Formation(1, 4, 4, 2) => call_result[1]
            /\ f = Formation(1, 4, 4, 3) => ~call_result[1]

\* is_legal has returned false on 1-4-4-3
C16_Witness ==
    /\ pc = "is_legal_returned"
    /\ call_args = Some(Formation(1, 4, 4, 3))
    /\ call_result = Some(FALSE)

\* is_legal has returned true on 1-4-4-2
C16_WitnessLegal ==
    /\ pc = "is_legal_returned"
    /\ call_args = Some(Formation(1, 4, 4, 2))
    /\ call_result = Some(TRUE)

\* C17  is_game_soon(now) is true exactly when game_time is set and
\*      game_time - now is at most 7200 seconds: a game exactly 7200
\*      seconds away is soon, one 7201 seconds away is not, a game whose
\*      kickoff has passed is soon, and a status without game_time is
\*      never soon.
C17_IsGameSoonIff ==
    pc = "is_game_soon_returned" =>
        LET game_time == call_args[1].status.game_time
            now == call_args[1].now
        IN  /\ call_result[1] <=>
                  (game_time # None /\ game_time[1] - now <= 7200)
            /\ game_time = None => ~call_result[1]
            /\ game_time = Some(now + 7200) => call_result[1]
            /\ game_time = Some(now + 7201) => ~call_result[1]
            /\ (game_time # None /\ game_time[1] < now) => call_result[1]

\* is_game_soon has returned true for a game exactly 7200 seconds away
C17_Witness ==
    /\ pc = "is_game_soon_returned"
    /\ call_args[1].status.game_time = Some(call_args[1].now + 7200)
    /\ call_result = Some(TRUE)

\* is_game_soon has returned false for a game 7201 seconds away
C17_WitnessNotSoon ==
    /\ pc = "is_game_soon_returned"
    /\ call_args[1].status.game_time = Some(call_args[1].now + 7201)
    /\ call_result = Some(FALSE)

\* is_game_soon has returned true for a game that has kicked off
C17_WitnessPast ==
    /\ pc = "is_game_soon_returned"
    /\ call_args[1].status.game_time # None
    /\ call_args[1].status.game_time[1] < call_args[1].now
    /\ call_result = Some(TRUE)

-----------------------------------------------------------------------------
(* Properties of the proposals taken together *)

\* the formation after the first k proposals have been applied, one
\* after the other, to a roster of the given formation
RECURSIVE formation_after_swaps(_, _)
formation_after_swaps(formation, k) ==
    IF k = 0
    THEN formation
    ELSE formation_after_swap(swaps[k].starter, swaps[k].bench,
                              formation_after_swaps(formation, k - 1))

\* C18  The proposals of one find_optimal_swaps call are each tested
\*      against the formation snapshot taken at the entry, which is the
\*      formation of the roster and is not recomputed; so each proposal
\*      is legal relative to the snapshot, yet all of them applied
\*      together can give an illegal starting formation.  An illegal
\*      aggregate is never the doing of one proposal alone: it takes at
\*      least two, each legal by itself.
C18_OnlyEachProposalIsLegal ==
    planner_returned =>
        /\ current_formation = Some(get_current_formation(roster[1]))
        /\ \A k \in 1..Len(swaps) :
              legal_after(current_formation[1], swaps[k].starter.pos,
                          swaps[k].bench.pos)
        /\ ~is_legal(formation_after_swaps(current_formation[1], Len(swaps)))
              => Len(swaps) >= 2

\* two proposals for two different starters and two different bench
\* players, each legal relative to the snapshot, whose application one
\* after the other gives an illegal formation
C18_Witness ==
    /\ planner_returned
    /\ Len(swaps) = 2
    /\ swaps[1].starter # swaps[2].starter
    /\ swaps[1].bench # swaps[2].bench
    /\ is_legal(current_formation[1])
    /\ \A k \in 1..2 :
          is_legal(formation_after_swap(swaps[k].starter, swaps[k].bench,
                                        current_formation[1]))
    /\ ~is_legal(formation_after_swaps(current_formation[1], 2))

\* the bench row is in no proposal
unclaimed(row) == \A k \in 1..Len(swaps) : swaps[k].bench # row

\* C19  Every starter in a proposal returned by find_optimal_swaps has a
\*      status entry that is confirmed not starting: is_starting known
\*      and false, or is_benched known and true.  A starter without a
\*      status entry, or with is_starting and is_benched both unknown, is
\*      in no proposal of either pass.
C19_ProposedStartersConfirmedOut ==
    /\ \A k \in 1..Len(swaps) :
          LET id == swaps[k].starter.player[1]
          IN  /\ id \in DOMAIN player_statuses
              /\ \/ player_statuses[id].is_starting = Some(FALSE)
                 \/ player_statuses[id].is_benched = Some(TRUE)
    /\ roster # None =>
          \A i \in 1..Len(roster[1].starters) :
             LET row == roster[1].starters[i]
             IN  (\/ row.player = None
                  \/ row.player[1] \notin DOMAIN player_statuses
                  \/ /\ player_statuses[row.player[1]].is_starting = None
                     /\ player_statuses[row.player[1]].is_benched = None)
                 => \A k \in 1..Len(swaps) : swaps[k].starter # row

\* the planner has returned a proposal for one starter and left alone a
\* starter whose entry has both fields unknown, although a bench player
\* confirmed starting, unlocked and in the starter's position was left
C19_Witness ==
    /\ planner_returned
    /\ swaps # << >>
    /\ \E i \in 1..Len(roster[1].starters) :
          LET row == roster[1].starters[i]
          IN  /\ row.player[1] \in DOMAIN player_statuses
              /\ player_statuses[row.player[1]].is_starting = None
              /\ player_statuses[row.player[1]].is_benched = None
              /\ ~player_statuses[row.player[1]].is_locked
              /\ \A k \in 1..Len(swaps) : swaps[k].starter # row
              /\ \E j \in 1..Len(roster[1].bench) :
                    LET bench == roster[1].bench[j]
                    IN  /\ unclaimed(bench)
                        /\ bench.player # None
                        /\ bench.pos = row.pos
                        /\ bench.player[1] \in DOMAIN player_statuses
                        /\ player_statuses[bench.player[1]].is_starting
                               = Some(TRUE)
                        /\ ~player_statuses[bench.player[1]].is_locked

=============================================================================
